---- MODULE Spec2Model ----
(***************************************************************************)
(* quicky: one "quick" limit order against the exchange's REST API.        *)
(* The model follows src/src/util.rs: api_send_quick_limit_order and the   *)
(* helpers it calls.  Prices are IEEE-754 binary64 values (Rust f64); the  *)
(* arithmetic below is a bit-exact software implementation of the f64      *)
(* operations the code uses (round to nearest, ties to even), built on     *)
(* naturals of arbitrary size kept as little-endian sequences of 15-bit    *)
(* limbs.                                                                  *)
(***************************************************************************)
EXTENDS Integers, Sequences, FiniteSets, TLC

(***************************************************************************)
(* Naturals of arbitrary size: <<l1, l2, ...>> is l1 + l2*2^15 + ...       *)
(* with no zero limb at the top; <<>> is zero.                             *)
(***************************************************************************)
Base == 2^15

\* the most fraction digits a displayed price of the model may need
MaxFracDigits == 8

RECURSIVE BNorm(_)
BNorm(a) ==
    IF a = <<>> THEN <<>>
    ELSE IF a[Len(a)] = 0 THEN BNorm(SubSeq(a, 1, Len(a) - 1))
    ELSE a

RECURSIVE BAddC(_, _, _)
BAddC(a, b, c) ==
    IF a = <<>> /\ b = <<>> THEN (IF c = 0 THEN <<>> ELSE <<c>>)
    ELSE LET x == IF a = <<>> THEN 0 ELSE Head(a)
             y == IF b = <<>> THEN 0 ELSE Head(b)
             s == x + y + c
         IN  <<s % Base>> \o BAddC(IF a = <<>> THEN <<>> ELSE Tail(a),
                                   IF b = <<>> THEN <<>> ELSE Tail(b),
                                   s \div Base)

BAdd(a, b) == BAddC(a, b, 0)

RECURSIVE BSubC(_, _, _)
BSubC(a, b, c) ==
    IF a = <<>> THEN <<>>
    ELSE LET y == IF b = <<>> THEN 0 ELSE Head(b)
             d == Head(a) - y - c
         IN  <<IF d < 0 THEN d + Base ELSE d>>
                 \o BSubC(Tail(a), IF b = <<>> THEN <<>> ELSE Tail(b),
                          IF d < 0 THEN 1 ELSE 0)

\* a - b, for a >= b
BSub(a, b) == BNorm(BSubC(a, b, 0))

RECURSIVE BMulSmallC(_, _, _)
BMulSmallC(a, k, c) ==
    IF a = <<>> THEN (IF c = 0 THEN <<>> ELSE <<c>>)
    ELSE LET p == Head(a) * k + c
         IN  <<p % Base>> \o BMulSmallC(Tail(a), k, p \div Base)

\* a * k for 0 <= k < Base
BMulSmall(a, k) == BNorm(BMulSmallC(a, k, 0))

RECURSIVE BMul(_, _)
BMul(a, b) ==
    IF a = <<>> \/ b = <<>> THEN <<>>
    ELSE BNorm(BAdd(BMulSmallC(a, Head(b), 0), <<0>> \o BMul(a, Tail(b))))

RECURSIVE BCmpTop(_, _, _)
BCmpTop(a, b, i) ==
    IF i = 0 THEN 0
    ELSE IF a[i] < b[i] THEN -1
    ELSE IF a[i] > b[i] THEN 1
    ELSE BCmpTop(a, b, i - 1)

\* -1, 0, 1 as a < b, a = b, a > b
BCmp(a, b) ==
    IF Len(a) < Len(b) THEN -1
    ELSE IF Len(a) > Len(b) THEN 1
    ELSE BCmpTop(a, b, Len(a))

RECURSIVE BitLenSmall(_)
BitLenSmall(x) == IF x = 0 THEN 0 ELSE 1 + BitLenSmall(x \div 2)

BBitLen(a) == IF a = <<>> THEN 0 ELSE 15 * (Len(a) - 1) + BitLenSmall(a[Len(a)])

\* bit i of a (bit 0 is the lowest)
BBit(a, i) ==
    LET l == (i \div 15) + 1
    IN  IF l > Len(a) THEN 0 ELSE (a[l] \div (2 ^ (i % 15))) % 2

\* the low n bits of a are all zero
BLowZero(a, n) ==
    LET w == n \div 15
        r == n % 15
    IN  /\ \A i \in 1..w : i > Len(a) \/ a[i] = 0
        /\ (r = 0 \/ w + 1 > Len(a) \/ a[w + 1] % (2 ^ r) = 0)

\* a * 2^n
BShl(a, n) ==
    IF a = <<>> THEN <<>>
    ELSE [i \in 1..(n \div 15) |-> 0] \o BMulSmall(a, 2 ^ (n % 15))

\* floor(a / 2^n)
BShr(a, n) ==
    LET w == n \div 15
        r == n % 15
        d == IF w >= Len(a) THEN <<>> ELSE SubSeq(a, w + 1, Len(a))
    IN  BNorm([i \in 1..Len(d) |->
                 (d[i] \div (2 ^ r))
                 + (IF i < Len(d) THEN (d[i + 1] % (2 ^ r)) * (2 ^ (15 - r)) ELSE 0)])

RECURSIVE BFromNat(_)
BFromNat(n) == IF n = 0 THEN <<>> ELSE <<n % Base>> \o BFromNat(n \div Base)

RECURSIVE BToNat(_)
BToNat(a) == IF a = <<>> THEN 0 ELSE Head(a) + Base * BToNat(Tail(a))

\* the largest q <= q0 with b * q <= r
RECURSIVE BQuotFix(_, _, _)
BQuotFix(b, r, q0) ==
    IF q0 = 0 \/ BCmp(BMulSmall(b, q0), r) <= 0 THEN q0 ELSE BQuotFix(b, r, q0 - 1)

\* <<floor(a' / b), a' mod b>> for a' the limbs i.. of a, by long division one
\* limb at a time; the top limb of b is at least Base / 2, so the estimate of
\* a quotient limb from the top limbs is at most 2 too large
RECURSIVE BDivLimbs(_, _, _)
BDivLimbs(a, b, i) ==
    IF i > Len(a) THEN <<<<>>, <<>>>>
    ELSE LET p   == BDivLimbs(a, b, i + 1)
             r2  == BNorm(<<a[i]>> \o p[2])
             n   == Len(b)
             top == IF Len(r2) > n THEN r2[n + 1] * Base + r2[n]
                    ELSE IF Len(r2) = n THEN r2[n] ELSE 0
             est == top \div b[n]
             q   == BQuotFix(b, r2, IF est > Base - 1 THEN Base - 1 ELSE est)
         IN  <<BNorm(<<q>> \o p[1]), BSub(r2, BMulSmall(b, q))>>

\* <<floor(a / b), a mod b>>, for b > 0
BDivMod(a, b) ==
    LET sh == 15 - BitLenSmall(b[Len(b)])
        qr == BDivLimbs(BShl(a, sh), BShl(b, sh), 1)
    IN  <<qr[1], BShr(qr[2], sh)>>

(***************************************************************************)
(* Rust f64 (IEEE-754 binary64).  A finite value is (-1)^s * m * 2^e with  *)
(* m = 0 or 2^52 <= m < 2^53; the exponent range is not bounded here (no   *)
(* value of the model comes near f64's overflow or subnormal range).       *)
(***************************************************************************)
F64Zero(s) == [k |-> "fin", s |-> s, e |-> 0, m |-> <<>>]

F64NaN == [k |-> "nan", s |-> 0, e |-> 0, m |-> <<>>]

F64Inf(s) == [k |-> "inf", s |-> s, e |-> 0, m |-> <<>>]

F64IsZero(a) == a.k = "fin" /\ a.m = <<>>

\* the f64 nearest to (-1)^s * (M + sticky) * 2^e, ties to even; sticky
\* stands for a non-zero remainder below the last bit of M
F64Round53(s, M, e, sticky) ==
    IF M = <<>> THEN F64Zero(s)
    ELSE LET L == BBitLen(M)
         IN  IF L <= 53
             THEN [k |-> "fin", s |-> s, e |-> e - (53 - L), m |-> BShl(M, 53 - L)]
             ELSE LET sh    == L - 53
                      q     == BShr(M, sh)
                      guard == BBit(M, sh - 1)
                      rest  == sticky \/ ~BLowZero(M, sh - 1)
                      up    == guard = 1 /\ (rest \/ BBit(q, 0) = 1)
                      q2    == IF up THEN BAdd(q, <<1>>) ELSE q
                  IN  IF BBitLen(q2) = 54
                      THEN [k |-> "fin", s |-> s, e |-> e + sh + 1, m |-> BShr(q2, 1)]
                      ELSE [k |-> "fin", s |-> s, e |-> e + sh, m |-> q2]

\* n as f64, for an integer n of the model (exact below 2^53)
F64FromInt(n) ==
    F64Round53(IF n < 0 THEN 1 ELSE 0, BFromNat(IF n < 0 THEN -n ELSE n), 0, FALSE)

F64Neg(a) == [a EXCEPT !.s = 1 - a.s]

\* a * b
F64Mul(a, b) ==
    IF a.k = "nan" \/ b.k = "nan" THEN F64NaN
    ELSE LET s == (a.s + b.s) % 2
         IN  IF a.k = "inf" \/ b.k = "inf"
             THEN (IF F64IsZero(a) \/ F64IsZero(b) THEN F64NaN ELSE F64Inf(s))
             ELSE F64Round53(s, BMul(a.m, b.m), a.e + b.e, FALSE)

\* a + b
F64Add(a, b) ==
    IF a.k = "nan" \/ b.k = "nan" THEN F64NaN
    ELSE IF a.k = "inf" /\ b.k = "inf" THEN (IF a.s = b.s THEN a ELSE F64NaN)
    ELSE IF a.k = "inf" THEN a
    ELSE IF b.k = "inf" THEN b
    ELSE IF F64IsZero(a) /\ F64IsZero(b) THEN F64Zero(IF a.s = 1 /\ b.s = 1 THEN 1 ELSE 0)
    ELSE IF F64IsZero(a) THEN b
    ELSE IF F64IsZero(b) THEN a
    ELSE LET e0 == IF a.e < b.e THEN a.e ELSE b.e
             A  == BShl(a.m, a.e - e0)
             B  == BShl(b.m, b.e - e0)
             c  == BCmp(A, B)
         IN  IF a.s = b.s THEN F64Round53(a.s, BAdd(A, B), e0, FALSE)
             ELSE IF c = 0 THEN F64Zero(0)
             ELSE IF c > 0 THEN F64Round53(a.s, BSub(A, B), e0, FALSE)
             ELSE F64Round53(b.s, BSub(B, A), e0, FALSE)

\* a - b
F64Sub(a, b) == F64Add(a, F64Neg(b))

\* a / b
F64Div(a, b) ==
    IF a.k = "nan" \/ b.k = "nan" THEN F64NaN
    ELSE LET s == (a.s + b.s) % 2
         IN  IF a.k = "inf" THEN (IF b.k = "inf" THEN F64NaN ELSE F64Inf(s))
             ELSE IF b.k = "inf" THEN F64Zero(s)
             ELSE IF F64IsZero(b) THEN (IF F64IsZero(a) THEN F64NaN ELSE F64Inf(s))
             ELSE IF F64IsZero(a) THEN F64Zero(s)
             ELSE LET qr == BDivMod(BShl(a.m, 56), b.m)
                  IN  F64Round53(s, qr[1], a.e - b.e - 56, qr[2] # <<>>)

\* f64::round: to the nearest integer, ties away from zero
F64RoundHalfAway(a) ==
    IF a.k # "fin" \/ a.m = <<>> \/ a.e >= 0 THEN a
    ELSE LET sh == -a.e
         IN  IF sh >= 54 THEN F64Zero(a.s)
             ELSE F64Round53(a.s, BAdd(BShr(a.m, sh), BFromNat(BBit(a.m, sh - 1))), 0, FALSE)

\* -1, 0, 1 as a < b, a = b, a > b, for finite or infinite a and b
F64Cmp(a, b) ==
    LET mag(x, y) ==       \* magnitudes of two finite values
            IF x.m = <<>> /\ y.m = <<>> THEN 0
            ELSE IF x.m = <<>> THEN -1
            ELSE IF y.m = <<>> THEN 1
            ELSE IF x.e < y.e THEN -1
            ELSE IF x.e > y.e THEN 1
            ELSE BCmp(x.m, y.m)
        amag(x, y) ==
            IF x.k = "inf" /\ y.k = "inf" THEN 0
            ELSE IF x.k = "inf" THEN 1
            ELSE IF y.k = "inf" THEN -1
            ELSE mag(x, y)
    IN  IF F64IsZero(a) /\ F64IsZero(b) THEN 0
        ELSE IF a.s = 0 /\ b.s = 1 THEN 1
        ELSE IF a.s = 1 /\ b.s = 0 THEN -1
        ELSE IF a.s = 0 THEN amag(a, b)
        ELSE -amag(a, b)

\* a < b (false when either is NaN)
F64Lt(a, b) == a.k # "nan" /\ b.k # "nan" /\ F64Cmp(a, b) < 0

\* a >= b (false when either is NaN)
F64Ge(a, b) == a.k # "nan" /\ b.k # "nan" /\ F64Cmp(a, b) >= 0

\* f64::powi (compiler-rt __powidf2): square and multiply, for n >= 0
RECURSIVE F64PowiLoop(_, _, _)
F64PowiLoop(a, b, r) ==
    LET r2 == IF b % 2 = 1 THEN F64Mul(r, a) ELSE r
        b2 == b \div 2
    IN  IF b2 = 0 THEN r2 ELSE F64PowiLoop(F64Mul(a, a), b2, r2)

F64Powi(a, n) == F64PowiLoop(a, n, F64FromInt(1))

(***************************************************************************)
(* Decimal numerals: [neg, digits, scale] is (-1)^neg * digits / 10^scale, *)
(* digits a natural of arbitrary size.  They stand for the decimal text of *)
(* a number: the exchange's last_price string, and the text Rust's Display *)
(* writes for an f64.                                                      *)
(***************************************************************************)
Dec(n, scale) ==
    [neg |-> n < 0, digits |-> BFromNat(IF n < 0 THEN -n ELSE n), scale |-> scale]

RECURSIVE BPow10(_)
BPow10(d) == IF d = 0 THEN <<1>> ELSE BMulSmall(BPow10(d - 1), 10)

\* str::parse::<f64> of a decimal numeral: the nearest f64.  digits < 2^53 and
\* 10^scale are exact in f64, so one correctly rounded division gives it.
F64Parse(d) ==
    F64Div(F64Round53(IF d.neg THEN 1 ELSE 0, d.digits, 0, FALSE),
           F64Powi(F64FromInt(10), d.scale))

\* the numeral with the fewest fraction digits, d or more, that parses back
\* to x; scale -1 when none has at most MaxFracDigits of them
RECURSIVE F64DisplayFrom(_, _)
F64DisplayFrom(x, d) ==
    IF d > MaxFracDigits THEN [neg |-> x.s = 1, digits |-> <<>>, scale |-> -1]
    ELSE LET N    == BMul(x.m, BPow10(d))
             K    == IF x.e >= 0 THEN BShl(N, x.e)
                     ELSE BAdd(BShr(N, -x.e), BFromNat(BBit(N, -x.e - 1)))
             cand == [neg |-> x.s = 1, digits |-> K, scale |-> d]
         IN  IF BBitLen(K) <= 53 /\ F64Parse(cand) = x THEN cand
             ELSE F64DisplayFrom(x, d + 1)

\* Display for a finite f64: the shortest decimal text that reads back as x
\* (never in exponent form)
F64Display(x) ==
    IF F64IsZero(x) THEN [neg |-> x.s = 1, digits |-> <<>>, scale |-> 0]
    ELSE F64DisplayFrom(x, 0)

(***************************************************************************)
(* i64 values: [neg, mag] is (-1)^neg * mag, mag a natural of arbitrary    *)
(* size, zero with neg = FALSE.                                            *)
(***************************************************************************)
I64(n) == [neg |-> n < 0, mag |-> BFromNat(IF n < 0 THEN -n ELSE n)]

\* i64::MAX, 2^63 - 1, and i64::MIN, -2^63
I64_MAX == [neg |-> FALSE, mag |-> BSub(BShl(<<1>>, 63), <<1>>)]

I64_MIN == [neg |-> TRUE, mag |-> BShl(<<1>>, 63)]

\* q > 0 and q < 0
I64Gt0(q) == ~q.neg /\ q.mag # <<>>

I64Lt0(q) == q.neg

\* i64::abs where the build does not check overflow: -q wraps for i64::MIN
i64_wrapping_abs(q) ==
    IF ~q.neg THEN q
    ELSE IF BCmp(q.mag, I64_MAX.mag) > 0 THEN I64_MIN
    ELSE [neg |-> FALSE, mag |-> q.mag]

\* v as u64: the 64 bits of v read as unsigned
as_u64(v) == IF v.neg THEN BSub(BShl(<<1>>, 64), v.mag) ELSE v.mag

(***************************************************************************)
(* The program: constants, the trading context and the inputs of one call. *)
(***************************************************************************)
TESTNET_URI_PREFIX == "https://api-testnet.bybit.com"

URI_PREFIX == "https://api.bybit.com"

\* DEFAULT_SL_PCNT, 0.2, and the other percentages given by --sl-pcnt
StopLossPcnts == {Dec(2, 1), Dec(5, 1)}

\* the tick-size table of a context: the XRPUSD entry of Default, and entries
\* for symbols whose tick size is or is not a power of ten
TickDecimals ==
    [XRPUSD |-> Dec(1, 4), LTCUSD |-> Dec(1, 2), BTCUSD |-> Dec(5, 1),
     ETHUSD |-> Dec(5, 2), BNBUSD |-> Dec(25, 2)]

\* enum StatusCode, the error kinds of the taxonomy (Success apart)
StatusCode ==
    {"InternalErrorGeneric", "InternalErrorParsingRawUrl",
     "InternalErrorCreatingHttpRequest", "InternalErrorParsingJsonObject",
     "InternalErrorNoTickStepAvailable", "ErrorApiResponse", "ErrorJsonParsing",
     "ErrorNumericJsonParsing", "MalformedAPIResponseFormat", "ApiEmptyResult",
     "ErrorIncorrectParameterValue"}

\* the symbols a call is made with: the keys of the table, a symbol that is
\* not a key and a key in the wrong case
Symbols == DOMAIN TickDecimals \cup {"DOGEUSD", "xrpusd"}

\* the largest |qty| of a call
MaxQty == 1

\* the largest ret_code the exchange answers with
MaxRetCode == 1

\* the latest reading of the clock, in milliseconds since the epoch
MaxTime == 1

\* last_price texts of the exchange that are decimal numerals, "0" and
\* "-100.00" among them
LastPriceDecimals ==
    {Dec(10000, 2), Dec(5123, 4), Dec(100123, 3), Dec(15, 5), Dec(3, 2),
     Dec(0, 0), Dec(-10000, 2)}

\* last_price texts: numerals, and a text that is no number
LastPrices == [t : {"dec"}, d : LastPriceDecimals] \cup {[t |-> "text", d |-> Dec(0, 0)]}

\* the f64 each percentage text parses to
StopLossF64 == [d \in StopLossPcnts |-> F64Parse(d)]

\* the quantities a call is made with
Quantities == {I64(n) : n \in -MaxQty..MaxQty} \cup {I64_MIN, I64_MAX}

\* the command lines: --symbol, --qty, --testnet given or not, --sl-pcnt
\* (DEFAULT_SL_PCNT when not given)
CommandlineArgs ==
    [symbol : Symbols, qty : Quantities, testnet : BOOLEAN,
     sl_pcnt : {StopLossF64[d] : d \in StopLossPcnts}]

\* TradingContext::default(); the four credentials are environment strings,
\* the tick table is TickDecimals (tick_steps is a pub field of the context)
TradingContext_default ==
    [api_key |-> "BYBIT_API_KEY", api_secret |-> "BYBIT_API_SECRET",
     testnet_api_key |-> "BYBIT_TESTNET_API_KEY",
     testnet_api_secret |-> "BYBIT_TESTNET_API_SECRET",
     tick_steps |-> [sym \in DOMAIN TickDecimals |-> F64Parse(TickDecimals[sym])],
     stop_loss_pcnt |-> StopLossF64[Dec(2, 1)],
     use_testnet |-> TRUE]

\* main, lines 507-511: the context of the run
trading_context(args) ==
    [TradingContext_default EXCEPT !.use_testnet = args.testnet,
                                   !.stop_loss_pcnt = args.sl_pcnt]

\* what isahc::send gives back for the ticker GET: a transport error, a body
\* that does not decode as BybitLatestInformationSymbolResponse, or a decoded
\* envelope whose result is absent (<<>>) or a list (<<rows>>) of rows
QuoteResponses ==
    {[kind |-> "err", ret_code |-> 0, result |-> <<>>],
     [kind |-> "undecodable", ret_code |-> 0, result |-> <<>>]}
    \cup [kind : {"json"}, ret_code : 0..MaxRetCode,
          result : {<<>>, <<<<>>>>} \cup {<<<<[last_price |-> lp]>>>> : lp \in LastPrices}]

\* what isahc::send gives back for the order POST
OrderResponses ==
    {[kind |-> "err", ret_code |-> 0], [kind |-> "undecodable", ret_code |-> 0]}
    \cup [kind : {"json"}, ret_code : 0..MaxRetCode]

VARIABLES
    cmd_args,        \* main: the parsed command line
    printed,         \* what print_error_if_necessary wrote, <<>> when nothing
    context,         \* the TradingContext of the call
    symbol,          \* argument symbol
    qty,             \* argument qty
    pc,              \* where api_send_quick_limit_order stands
    transport,       \* the requests handed to isahc::send, in order
    quote_response,  \* <<r>> once the ticker GET has resolved with r
    order_response,  \* <<r>> once the order POST has resolved with r
    price,           \* <<p>> once api_get_current_price returned Ok(p)
    value_copy,      \* count_tick_steps: value_copy
    count,           \* count_tick_steps: count
    order,           \* <<o>> once the order's values are computed
    result,          \* <<>> while running, then <<outcome>>
    failure          \* the place in the code an error outcome came from

vars == <<cmd_args, printed, context, symbol, qty, pc, transport, quote_response, order_response,
          price, value_copy, count, order, result, failure>>

get_api_key(ctx) == IF ctx.use_testnet THEN ctx.testnet_api_key ELSE ctx.api_key

\* get_api_secret that always takes the live secret
get_api_secret_live(ctx) == ctx.api_secret

get_api_secret(ctx) == IF ctx.use_testnet THEN ctx.testnet_api_secret ELSE ctx.api_secret

\* the text prefix ++ end_point, kept as its two parts
get_full_uri(use_testnet, end_point) ==
    <<IF use_testnet THEN TESTNET_URI_PREFIX ELSE URI_PREFIX, end_point>>

\* HMAC-SHA256 of str under secret, as hex: a function of both, nothing more
sign_private_request_params(str, secret) == [hmac_sha256_hex |-> str, key |-> secret]

\* main, lines 501-516: up to the call of api_send_quick_limit_order
Init ==
    /\ cmd_args \in CommandlineArgs
    /\ printed = <<>>
    /\ context = trading_context(cmd_args)
    /\ symbol = cmd_args.symbol
    /\ qty = cmd_args.qty
    /\ pc = "start"
    /\ transport = <<>>
    /\ quote_response = <<>>
    /\ order_response = <<>>
    /\ price = <<>>
    /\ value_copy = F64Zero(0)
    /\ count = 0
    /\ order = <<>>
    /\ result = <<>>
    /\ failure = "none"

\* return Err(code) from the place `where`
Fail(code, where) ==
    /\ result' = <<code>>
    /\ failure' = where
    /\ pc' = "done"

\* whether q.abs() overflows i64: a build with overflow checks panics there
i64_abs_overflows(q) == q.neg /\ BCmp(q.mag, I64_MAX.mag) > 0

\* qty.abs() as u64
qty_abs(q) == as_u64(i64_wrapping_abs(q))

\* line 36: 10.0_f64.powi(count_tick_steps(tick_step)), the count given
tick_step_value_roundup(n) == F64Powi(F64FromInt(10), n)

\* lines 38 and 44: (x * roundup).round() / roundup, the rounding of a price
\* to the tick resolution
price_rounding(x, roundup) == F64Div(F64RoundHalfAway(F64Mul(x, roundup)), roundup)

\* target_limit_price with the two sides exchanged
target_limit_price_swapped(p, tick_step, roundup, is_buy_side) ==
    IF is_buy_side
    THEN F64Div(F64RoundHalfAway(F64Mul(F64Add(p, tick_step), roundup)), roundup)
    ELSE F64Div(F64RoundHalfAway(F64Mul(F64Sub(p, tick_step), roundup)), roundup)

\* line 38: one tick below the quote for a buy, one above for a sell, rounded
target_limit_price(p, tick_step, roundup, is_buy_side) ==
    IF is_buy_side
    THEN F64Div(F64RoundHalfAway(F64Mul(F64Sub(p, tick_step), roundup)), roundup)
    ELSE F64Div(F64RoundHalfAway(F64Mul(F64Add(p, tick_step), roundup)), roundup)

\* stop_loss_price taking the percentage as a fraction (no division by 100)
stop_loss_price_fraction(p, stop_loss_pcnt, roundup, is_buy_side) ==
    LET one == F64FromInt(1)
    IN  IF is_buy_side
        THEN F64Div(F64RoundHalfAway(F64Mul(F64Mul(p, F64Sub(one, stop_loss_pcnt)), roundup)),
                    roundup)
        ELSE F64Div(F64RoundHalfAway(F64Mul(F64Mul(p, F64Add(one, stop_loss_pcnt)), roundup)),
                    roundup)

\* line 44: the quote less (buy) or plus (sell) stop_loss_pcnt percent, rounded
stop_loss_price(p, stop_loss_pcnt, roundup, is_buy_side) ==
    LET pcnt == F64Div(stop_loss_pcnt, F64FromInt(100))
        one  == F64FromInt(1)
    IN  IF is_buy_side
        THEN F64Div(F64RoundHalfAway(F64Mul(F64Mul(p, F64Sub(one, pcnt)), roundup)), roundup)
        ELSE F64Div(F64RoundHalfAway(F64Mul(F64Mul(p, F64Add(one, pcnt)), roundup)), roundup)

\* format!("{}", x) of an f64: its Display text
f64_to_string(x) == F64Display(x)

\* serde_json's text of an f64 field: the same shortest digits, an integral
\* value with a trailing ".0"
f64_to_json(x) ==
    LET d == F64Display(x)
    IN  IF d.scale = 0 THEN [d EXCEPT !.digits = BMulSmall(@, 10), !.scale = 1] ELSE d

\* param_str with timestamp before time_in_force (the order of RequestObj)
param_str_struct_order(api_key, limit, qty_u64, side, stop_loss, sym, timestamp) ==
    << <<"api_key", api_key>>, <<"order_type", "Limit">>, <<"price", limit>>,
       <<"qty", qty_u64>>, <<"side", side>>, <<"stop_loss", stop_loss>>,
       <<"symbol", sym>>, <<"timestamp", timestamp>>,
       <<"time_in_force", "PostOnly">> >>

\* line 48: the text that is signed, as its key=value pairs in the order of
\* the format string (joined by '&'); limit and stop_loss are Display texts
param_str(api_key, limit, qty_u64, side, stop_loss, sym, timestamp) ==
    << <<"api_key", api_key>>, <<"order_type", "Limit">>, <<"price", limit>>,
       <<"qty", qty_u64>>, <<"side", side>>, <<"stop_loss", stop_loss>>,
       <<"symbol", sym>>, <<"time_in_force", "PostOnly">>,
       <<"timestamp", timestamp>> >>

\* RequestObj with price and stop_loss taken from each other's value
request_json_obj_crossed(api_key, limit, qty_u64, side, stop_loss, sym, timestamp, sign) ==
    << <<"api_key", api_key>>, <<"order_type", "Limit">>, <<"price", stop_loss>>,
       <<"qty", qty_u64>>, <<"side", side>>, <<"stop_loss", limit>>,
       <<"symbol", sym>>, <<"timestamp", timestamp>>,
       <<"time_in_force", "PostOnly">>, <<"sign", sign>> >>

\* lines 53-77: RequestObj, its fields in the order of the struct; limit and
\* stop_loss are JSON number texts
request_json_obj(api_key, limit, qty_u64, side, stop_loss, sym, timestamp, sign) ==
    << <<"api_key", api_key>>, <<"order_type", "Limit">>, <<"price", limit>>,
       <<"qty", qty_u64>>, <<"side", side>>, <<"stop_loss", stop_loss>>,
       <<"symbol", sym>>, <<"timestamp", timestamp>>,
       <<"time_in_force", "PostOnly">>, <<"sign", sign>> >>

\* CheckTickStep without the contains_key test
CheckTickStep_unchecked ==
    /\ pc = "start"
    /\ pc' = "quote_send"
    /\ UNCHANGED <<cmd_args, printed, context, symbol, qty, transport, quote_response,
                   order_response,
                   price, value_copy, count, order, result, failure>>

\* lines 24-26: the symbol must have a tick size
CheckTickStep ==
    /\ pc = "start"
    /\ IF symbol \notin DOMAIN context.tick_steps
       THEN Fail("InternalErrorNoTickStepAvailable", "tick_steps")
       ELSE pc' = "quote_send" /\ UNCHANGED <<result, failure>>
    /\ UNCHANGED <<cmd_args, printed, context, symbol, qty, transport, quote_response,
                   order_response,
                   price, value_copy, count, order>>

\* api_get_current_price, lines 125-141: parse the URL, build the GET, send it
QuoteSend ==
    /\ pc = "quote_send"
    /\ \E url_ok \in BOOLEAN, request_ok \in BOOLEAN :
          IF ~url_ok
          THEN Fail("InternalErrorParsingRawUrl", "quote_url") /\ UNCHANGED transport
          ELSE IF ~request_ok
          THEN Fail("InternalErrorCreatingHttpRequest", "quote_request")
               /\ UNCHANGED transport
          ELSE /\ transport' = Append(transport,
                     [method |-> "GET",
                      uri |-> get_full_uri(context.use_testnet,
                                           <<"/v2/public/tickers?symbol=", symbol>>),
                      body |-> <<>>])
               /\ pc' = "quote_wait"
               /\ UNCHANGED <<result, failure>>
    /\ UNCHANGED <<cmd_args, printed, context, symbol, qty, quote_response, order_response,
                   price, value_copy, count, order>>

\* api_get_current_price, lines 141-170: what the GET resolved with; line 28
\* hands an Err on unchanged
QuoteResolve ==
    /\ pc = "quote_wait"
    /\ \E r \in QuoteResponses :
          /\ quote_response' = <<r>>
          /\ IF r.kind = "err"
             THEN Fail("ErrorApiResponse", "quote_transport") /\ UNCHANGED price
             ELSE IF r.kind = "undecodable"
             THEN Fail("ErrorJsonParsing", "quote_json") /\ UNCHANGED price
             ELSE IF r.ret_code # 0
             THEN Fail("ErrorApiResponse", "quote_ret_code") /\ UNCHANGED price
             ELSE IF r.result = <<>>
             THEN Fail("panic", "quote_result_unwrap") /\ UNCHANGED price
             ELSE IF r.result[1] = <<>>
             THEN Fail("ApiEmptyResult", "quote_empty") /\ UNCHANGED price
             ELSE IF r.result[1][1].last_price.t # "dec"
             THEN Fail("ErrorNumericJsonParsing", "quote_numeric") /\ UNCHANGED price
             ELSE /\ price' = <<F64Parse(r.result[1][1].last_price.d)>>
                  /\ pc' = "check_qty"
                  /\ UNCHANGED <<result, failure>>
    /\ UNCHANGED <<cmd_args, printed, context, symbol, qty, transport, order_response,
                   value_copy, count, order>>

\* lines 30-32
CheckQty ==
    /\ pc = "check_qty"
    /\ IF qty = I64(0)
       THEN Fail("ErrorIncorrectParameterValue", "qty")
       ELSE pc' = "count_tick_steps" /\ UNCHANGED <<result, failure>>
    /\ UNCHANGED <<cmd_args, printed, context, symbol, qty, transport, quote_response,
                   order_response,
                   price, value_copy, count, order>>

\* count_tick_steps, lines 319-324, called at line 36 with the symbol's tick
count_tick_steps_enter ==
    /\ pc = "count_tick_steps"
    /\ count' = 0
    /\ value_copy' = context.tick_steps[symbol]
    /\ pc' = IF F64Ge(context.tick_steps[symbol], F64FromInt(1)) THEN "compute"
             ELSE "count_tick_steps_loop"
    /\ UNCHANGED <<cmd_args, printed, context, symbol, qty, transport, quote_response,
                   order_response,
                   price, order, result, failure>>

\* count_tick_steps_loop whose body counts and leaves value_copy as it is
count_tick_steps_loop_unscaled ==
    /\ pc = "count_tick_steps_loop"
    /\ IF F64Lt(value_copy, F64FromInt(1))
       THEN /\ value_copy' = value_copy
            /\ count' = count + 1
            /\ pc' = pc
       ELSE /\ pc' = "compute"
            /\ UNCHANGED <<value_copy, count>>
    /\ UNCHANGED <<cmd_args, printed, context, symbol, qty, transport, quote_response,
                   order_response, price, order, result, failure>>

\* count_tick_steps, lines 326-331: one test of the loop
count_tick_steps_loop ==
    /\ pc = "count_tick_steps_loop"
    /\ IF F64Lt(value_copy, F64FromInt(1))
       THEN /\ value_copy' = F64Mul(value_copy, F64FromInt(10))
            /\ count' = count + 1
            /\ pc' = pc
       ELSE /\ pc' = "compute"
            /\ UNCHANGED <<value_copy, count>>
    /\ UNCHANGED <<cmd_args, printed, context, symbol, qty, transport, quote_response,
                   order_response,
                   price, order, result, failure>>

\* lines 34-77: side, prices, timestamp, the signed text and the request
\* object.  Each value is computed once and bound, as a let binding is.
\* qty.abs() of line 42 panics for i64::MIN in a build with overflow checks
\* (the dev profile) and wraps in one without (the release profile).
ComputeOrder ==
    /\ pc = "compute"
    /\ \E overflow_checks \in IF i64_abs_overflows(qty) THEN BOOLEAN ELSE {FALSE} :
       IF overflow_checks
       THEN Fail("panic", "qty_abs_overflow") /\ UNCHANGED order
       ELSE
         /\ pc' = "order_send"
         /\ UNCHANGED <<result, failure>>
         /\ \E is_buy_side \in {I64Gt0(qty)}, tick_step \in {context.tick_steps[symbol]},
               roundup \in {tick_step_value_roundup(count)} :
            \E limit \in {target_limit_price(price[1], tick_step, roundup, is_buy_side)},
               stop_loss \in {stop_loss_price(price[1], context.stop_loss_pcnt, roundup,
                                              is_buy_side)},
               side \in {IF is_buy_side THEN "Buy" ELSE "Sell"} :
            \E limit_str \in {f64_to_string(limit)},
               stop_loss_str \in {f64_to_string(stop_loss)},
               limit_json \in {f64_to_json(limit)},
               stop_loss_json \in {f64_to_json(stop_loss)} :
            \E curr_unix_timestamp \in 0..MaxTime :
            \E str \in {param_str(get_api_key(context), limit_str, qty_abs(qty), side,
                                  stop_loss_str, symbol, curr_unix_timestamp)} :
            \E sign \in {sign_private_request_params(str, get_api_secret(context))} :
               order' = <<[target_limit_price |-> limit,
                           stop_loss_price |-> stop_loss,
                           side |-> side,
                           qty_abs |-> qty_abs(qty),
                           timestamp |-> curr_unix_timestamp,
                           param_str |-> str,
                           sign |-> sign,
                           request_json_obj |->
                               request_json_obj(get_api_key(context), limit_json,
                                                qty_abs(qty), side, stop_loss_json,
                                                symbol, curr_unix_timestamp, sign)]>>
    /\ UNCHANGED <<cmd_args, printed, context, symbol, qty, transport, quote_response,
                   order_response, price, value_copy, count>>

\* lines 79-97: parse the URL, serialise the body, build the POST, send it
OrderSend ==
    /\ pc = "order_send"
    /\ \E url_ok \in BOOLEAN, body_ok \in BOOLEAN, request_ok \in BOOLEAN :
          IF ~url_ok
          THEN Fail("InternalErrorCreatingHttpRequest", "order_url")
               /\ UNCHANGED transport
          ELSE IF ~body_ok
          THEN Fail("InternalErrorParsingJsonObject", "order_body")
               /\ UNCHANGED transport
          ELSE IF ~request_ok
          THEN Fail("panic", "order_request_unwrap") /\ UNCHANGED transport
          ELSE /\ transport' = Append(transport,
                     [method |-> "POST",
                      uri |-> get_full_uri(context.use_testnet,
                                           <<"/v2/private/order/create">>),
                      body |-> order[1].request_json_obj])
               /\ pc' = "order_wait"
               /\ UNCHANGED <<result, failure>>
    /\ UNCHANGED <<cmd_args, printed, context, symbol, qty, quote_response, order_response,
                   price, value_copy, count, order>>

\* OrderResolve taking every decoded envelope as success
OrderResolve_any_ret_code ==
    /\ pc = "order_wait"
    /\ \E r \in OrderResponses :
          /\ order_response' = <<r>>
          /\ IF r.kind = "err"
             THEN Fail("ErrorApiResponse", "order_transport")
             ELSE IF r.kind = "undecodable"
             THEN Fail("ErrorJsonParsing", "order_json")
             ELSE result' = <<"Ok">> /\ pc' = "done" /\ UNCHANGED failure
    /\ UNCHANGED <<cmd_args, printed, context, symbol, qty, transport, quote_response,
                   price, value_copy, count, order>>

\* OrderResolve sending the POST again after a transport error
OrderResolve_retry ==
    /\ pc = "order_wait"
    /\ \E r \in OrderResponses :
          /\ order_response' = <<r>>
          /\ IF r.kind = "err"
             THEN pc' = "order_send" /\ UNCHANGED <<result, failure>>
             ELSE IF r.kind = "undecodable"
             THEN Fail("ErrorJsonParsing", "order_json")
             ELSE IF r.ret_code = 0
             THEN result' = <<"Ok">> /\ pc' = "done" /\ UNCHANGED failure
             ELSE Fail("ErrorApiResponse", "order_ret_code")
    /\ UNCHANGED <<cmd_args, printed, context, symbol, qty, transport, quote_response,
                   price, value_copy, count, order>>

\* lines 97-115: what the POST resolved with
OrderResolve ==
    /\ pc = "order_wait"
    /\ \E r \in OrderResponses :
          /\ order_response' = <<r>>
          /\ IF r.kind = "err"
             THEN Fail("ErrorApiResponse", "order_transport")
             ELSE IF r.kind = "undecodable"
             THEN Fail("ErrorJsonParsing", "order_json")
             ELSE IF r.ret_code = 0
             THEN result' = <<"Ok">> /\ pc' = "done" /\ UNCHANGED failure
             ELSE Fail("ErrorApiResponse", "order_ret_code")
    /\ UNCHANGED <<cmd_args, printed, context, symbol, qty, transport, quote_response,
                   price, value_copy, count, order>>

\* print_error_if_necessary, lines 261-274: the line it writes on stderr
print_error_if_necessary(code) ==
    CASE code = "InternalErrorCreatingHttpRequest" ->
             <<"Error: internal error creating http request">>
      [] code = "InternalErrorParsingRawUrl" ->
             <<"Error: internal error parsing a raw url">>
      [] code = "ErrorJsonParsing" -> <<"Error: parsing json">>
      [] code = "ErrorApiResponse" -> <<"Error: received error in api response">>
      [] code = "InternalErrorGeneric" -> <<"Error: internal generic error">>
      [] code = "MalformedAPIResponseFormat" ->
             <<"Error: malformed result from API response">>
      [] code = "ApiEmptyResult" -> <<"Error: API has empty result">>
      [] code = "ErrorNumericJsonParsing" -> <<"Error: numeric Json parsing error">>
      [] code = "InternalErrorNoTickStepAvailable" ->
             <<"Error: no tick steps available for specified symbol">>
      [] OTHER -> <<>>

\* main, lines 516-522: the match on what the call returned; a panic never
\* returns to it
main_match ==
    /\ pc = "done"
    /\ result # <<"panic">>
    /\ printed' = IF result = <<"Ok">> THEN <<>> ELSE print_error_if_necessary(result[1])
    /\ pc' = "exit"
    /\ UNCHANGED <<cmd_args, context, symbol, qty, transport, quote_response,
                   order_response, price, value_copy, count, order, result, failure>>

Next ==
    \/ CheckTickStep
    \/ QuoteSend
    \/ QuoteResolve
    \/ CheckQty
    \/ count_tick_steps_enter
    \/ count_tick_steps_loop
    \/ ComputeOrder
    \/ OrderSend
    \/ OrderResolve
    \/ main_match

Spec == Init /\ [][Next]_vars

(***************************************************************************)
(* Exact arithmetic for stating the properties: rationals (-1)^neg * n / d *)
(* with n and d naturals of arbitrary size, d > 0.                         *)
(***************************************************************************)
QOfDec(x) == [neg |-> x.neg, n |-> x.digits, d |-> BPow10(x.scale)]

QOfNat(k) == [neg |-> FALSE, n |-> BFromNat(k), d |-> <<1>>]

QNeg(a) == [a EXCEPT !.neg = ~a.neg]

QAdd(a, b) ==
    LET x == BMul(a.n, b.d)
        y == BMul(b.n, a.d)
        d == BMul(a.d, b.d)
    IN  IF a.neg = b.neg THEN [neg |-> a.neg, n |-> BAdd(x, y), d |-> d]
        ELSE IF BCmp(x, y) >= 0 THEN [neg |-> a.neg, n |-> BSub(x, y), d |-> d]
        ELSE [neg |-> b.neg, n |-> BSub(y, x), d |-> d]

QSub(a, b) == QAdd(a, QNeg(b))

QMul(a, b) == [neg |-> a.neg # b.neg, n |-> BMul(a.n, b.n), d |-> BMul(a.d, b.d)]

\* a / b, for b # 0
QDiv(a, b) == [neg |-> a.neg # b.neg, n |-> BMul(a.n, b.d), d |-> BMul(a.d, b.n)]

\* |a| <= |b|
QAbsLe(a, b) == BCmp(BMul(a.n, b.d), BMul(b.n, a.d)) <= 0

QEq(a, b) == QSub(a, b).n = <<>>

\* a is an integer
QIsInt(a) == BDivMod(a.n, a.d)[2] = <<>>

\* 10^n
QPow10(n) == [neg |-> FALSE, n |-> BPow10(n), d |-> <<1>>]

\* x is a multiple of 10^-n that is nearest to the exact value v
NearestAtResolution(x, v, n) ==
    /\ QIsInt(QMul(x, QPow10(n)))
    /\ QAbsLe(QMul(QSub(x, v), QOfNat(2)), QDiv(QOfNat(1), QPow10(n)))

\* the tick resolution of a positive tick size t: the least n with t * 10^n >= 1
TickResolution(t) ==
    CHOOSE n \in 0..t.scale :
        /\ BCmp(BMul(t.digits, BPow10(n)), BPow10(t.scale)) >= 0
        /\ \A m \in 0..(n - 1) : BCmp(BMul(t.digits, BPow10(m)), BPow10(t.scale)) < 0

\* the values of one call, as exact numbers
QuoteText == quote_response[1].result[1][1].last_price.d

QuoteQ == QOfDec(QuoteText)

TickQ == QOfDec(TickDecimals[symbol])

\* the --sl-pcnt text the context's stop_loss_pcnt was read from
StopLossPcntQ ==
    QOfDec(CHOOSE d \in StopLossPcnts : StopLossF64[d] = context.stop_loss_pcnt)

\* the value text of field key in a sequence of key=value pairs
RECURSIVE Field(_, _)
Field(pairs, key) == IF Head(pairs)[1] = key THEN Head(pairs)[2] ELSE Field(Tail(pairs), key)

Keys(pairs) == [i \in 1..Len(pairs) |-> pairs[i][1]]

\* the state ComputeOrder leaves: the order is written there and nowhere else
OrderComputed == order # <<>> /\ pc = "order_send"

SubmittedLimitQ == QOfDec(Field(order[1].param_str, "price"))

SubmittedStopLossQ == QOfDec(Field(order[1].param_str, "stop_loss"))

(***************************************************************************)
(* The claims.                                                             *)
(***************************************************************************)

\* C1: a symbol with no entry in the tick-size mapping makes the call return
\* InternalErrorNoTickStepAvailable, and no request is ever handed to the
\* transport (neither the ticker GET nor the order POST).
C1_NoTickStepNoCall ==
    symbol \notin DOMAIN context.tick_steps =>
        /\ transport = <<>>
        /\ pc \in {"start", "done", "exit"}
        /\ (pc # "start" => result = <<"InternalErrorNoTickStepAvailable">>)

C1_Witness ==
    /\ symbol \notin DOMAIN context.tick_steps
    /\ pc = "done"
    /\ result = <<"InternalErrorNoTickStepAvailable">>
    /\ transport = <<>>

\* C2 (as claimed): for a symbol of the mapping, a call with qty = 0 hands no
\* request to the transport (the ticker GET is not sent for a zero quantity),
\* and the transport has been called zero times when
\* ErrorIncorrectParameterValue is returned.
C2_ZeroQtyBeforeNetwork ==
    (symbol \in DOMAIN context.tick_steps /\ qty = I64(0)) =>
        /\ transport = <<>>
        /\ (result = <<"ErrorIncorrectParameterValue">> => transport = <<>>)

\* C3: the transport is called at most twice, the ticker GET first and the
\* order POST second; the POST is sent only once the GET has resolved with a
\* price; a step hands the transport at most one more request, and none once
\* the call has an outcome.
C3_TransportOrder ==
    /\ [](/\ Len(transport) <= 2
          /\ (Len(transport) >= 1 => transport[1].method = "GET")
          /\ (Len(transport) = 2 =>
                 /\ transport[2].method = "POST"
                 /\ quote_response # <<>>
                 /\ quote_response[1].kind = "json"
                 /\ price # <<>>)
          /\ (failure \in {"quote_url", "quote_request", "quote_transport",
                           "quote_json", "quote_ret_code", "quote_result_unwrap",
                           "quote_empty", "quote_numeric"}
                 => Len(transport) <= 1))
    /\ [][/\ (transport' # transport =>
                 /\ Len(transport') = Len(transport) + 1
                 /\ SubSeq(transport', 1, Len(transport)) = transport)
          /\ (result # <<>> => transport' = transport)]_vars

C3_Witness ==
    /\ Len(transport) = 2
    /\ pc = "done"
    /\ result = <<"ErrorApiResponse">>
    /\ failure = "order_transport"
C5_StopLossPrice ==
    OrderComputed =>
        LET n      == TickResolution(TickDecimals[symbol])
            pcnt   == QDiv(StopLossPcntQ, QOfNat(100))
            factor == IF I64Gt0(qty) THEN QSub(QOfNat(1), pcnt) ELSE QAdd(QOfNat(1), pcnt)
        IN  /\ NearestAtResolution(SubmittedStopLossQ, QMul(QuoteQ, factor), n)
            /\ (QEq(QuoteQ, QOfDec(Dec(10000, 2))) /\ QEq(StopLossPcntQ, QOfDec(Dec(2, 1)))
                /\ n >= 1 =>
                   QEq(SubmittedStopLossQ,
                       QOfDec(IF I64Gt0(qty) THEN Dec(9980, 2) ELSE Dec(10020, 2))))

C5_Witness ==
    /\ order # <<>>
    /\ symbol = "LTCUSD"
    /\ QuoteText = Dec(10000, 2)
    /\ context.stop_loss_pcnt = StopLossF64[Dec(2, 1)]
    /\ I64Gt0(qty)
    /\ Field(order[1].param_str, "stop_loss") = Dec(998, 1)

\* C6 (as claimed): for every tick size of the mapping, powers of ten or not,
\* the limit price and the stop-loss price of the order are integer multiples
\* of the symbol's tick size.
C6_TickAligned ==
    order # <<>> =>
        /\ QIsInt(QDiv(SubmittedLimitQ, TickQ))
        /\ QIsInt(QDiv(SubmittedStopLossQ, TickQ))
\* C7: the text that is signed is the nine key=value pairs api_key,
\* order_type, price, qty, side, stop_loss, symbol, time_in_force, timestamp
\* in this order, with order_type = Limit and time_in_force = PostOnly, for
\* every input; the values are those of the call.
C7_SignedFields ==
    order # <<>> =>
        LET signed == order[1].sign.hmac_sha256_hex
        IN  /\ Keys(signed) = <<"api_key", "order_type", "price", "qty", "side",
                                "stop_loss", "symbol", "time_in_force", "timestamp">>
            /\ signed[2][2] = "Limit"
            /\ signed[8][2] = "PostOnly"
            /\ signed[4][2] = qty.mag
            /\ signed[5][2] = (IF I64Gt0(qty) THEN "Buy" ELSE "Sell")
            /\ signed[7][2] = symbol
            /\ signed[9][2] = order[1].timestamp
            /\ signed[1][2] \in {context.api_key, context.testnet_api_key}
            /\ (OrderComputed =>
                   /\ F64Parse(signed[3][2]) = order[1].target_limit_price
                   /\ F64Parse(signed[6][2]) = order[1].stop_loss_price)

C7_Witness ==
    /\ order # <<>>
    /\ Len(transport) = 2
    /\ Len(order[1].sign.hmac_sha256_hex) = 9
    /\ I64Lt0(qty)

\* C8: one environment for the whole call: with use_testnet the api_key of
\* the signed text and of the body is the test key, the signing secret the
\* test secret and both requests go to the test base URL; without it the live
\* key, the live secret and the live base URL.
C8_OneEnvironment ==
    LET test == context.use_testnet
    IN  /\ \A i \in 1..Len(transport) :
               transport[i].uri[1] = (IF test THEN "https://api-testnet.bybit.com"
                                              ELSE "https://api.bybit.com")
        /\ order # <<>> =>
               /\ Field(order[1].param_str, "api_key")
                      = (IF test THEN context.testnet_api_key ELSE context.api_key)
               /\ Field(order[1].request_json_obj, "api_key")
                      = (IF test THEN context.testnet_api_key ELSE context.api_key)
               /\ order[1].sign.key
                      = (IF test THEN context.testnet_api_secret ELSE context.api_secret)
               /\ Field(order[1].request_json_obj, "sign") = order[1].sign

C8_Witness ==
    /\ Len(transport) = 2
    /\ context.use_testnet
    /\ transport[2].uri[1] = "https://api-testnet.bybit.com"
    /\ Field(transport[2].body, "sign").key = "BYBIT_TESTNET_API_SECRET"

\* C9: once the order POST has returned, the outcome is success exactly when
\* the body decoded as an envelope with ret_code 0; a decoded envelope with
\* another ret_code gives ErrorApiResponse, a body that does not decode gives
\* ErrorJsonParsing; there is no success without such a response.
C9_OrderOutcome ==
    /\ (result = <<"Ok">> => order_response # <<>>)
    /\ order_response # <<>> =>
           LET r == order_response[1]
           IN  /\ result = <<"Ok">> <=> (r.kind = "json" /\ r.ret_code = 0)
               /\ (r.kind = "json" /\ r.ret_code # 0 => result = <<"ErrorApiResponse">>)
               /\ (r.kind = "undecodable" => result = <<"ErrorJsonParsing">>)

C9_Witness ==
    /\ order_response # <<>>
    /\ order_response[1].kind = "json"
    /\ order_response[1].ret_code # 0
    /\ result = <<"ErrorApiResponse">>

\* C10 (as claimed): the six failure modes of the quote fetch give six
\* different error kinds, so the returned kind names the failure mode; in
\* particular ErrorApiResponse names a non-zero ret_code and a transport
\* failure has a kind of its own.
C10_QuoteFailureKinds ==
    failure \in {"quote_url", "quote_request", "quote_transport", "quote_ret_code",
                 "quote_empty", "quote_numeric"} =>
        failure = CASE result[1] = "InternalErrorParsingRawUrl" -> "quote_url"
                    [] result[1] = "InternalErrorCreatingHttpRequest" -> "quote_request"
                    [] result[1] = "ErrorApiResponse" -> "quote_ret_code"
                    [] result[1] = "ApiEmptyResult" -> "quote_empty"
                    [] result[1] = "ErrorNumericJsonParsing" -> "quote_numeric"
                    [] OTHER -> "quote_transport"

\* C11 (as claimed): every outcome of the call is success or one error kind
\* of StatusCode; for no exchange response and no outcome of building a
\* request does the call panic.
C11_OutcomeInTaxonomy ==
    result # <<>> => result[1] \in {"Ok"} \cup StatusCode

(***************************************************************************)
(* count_tick_steps on its own: the call of line 36 with tick sizes beyond *)
(* those of the table.                                                     *)
(***************************************************************************)
\* the largest k of the tick sizes 10^-k
MaxTickExp == 15

\* tick sizes: the powers 10^-k, and sizes that are no power of ten, below
\* and above 1
CountTickInputs ==
    {Dec(1, k) : k \in 0..MaxTickExp}
    \cup {Dec(5, 1), Dec(25, 2), Dec(5, 2), Dec(125, 3), Dec(2, 0), Dec(15, 1), Dec(10, 0)}

\* a context whose table holds the one tick size d, and the call about to
\* evaluate count_tick_steps(tick_step)
InitCount ==
    /\ cmd_args \in [symbol : {"TICK"}, qty : {I64(1)}, testnet : {TRUE},
                     sl_pcnt : {StopLossF64[Dec(2, 1)]}]
    /\ printed = <<>>
    /\ \E d \in CountTickInputs :
          context = [trading_context(cmd_args) EXCEPT
                         !.tick_steps = [sym \in {"TICK"} |-> F64Parse(d)]]
    /\ symbol = cmd_args.symbol
    /\ qty = cmd_args.qty
    /\ pc = "count_tick_steps"
    /\ transport = <<>>
    /\ quote_response = <<>>
    /\ order_response = <<>>
    /\ price = <<>>
    /\ value_copy = F64Zero(0)
    /\ count = 0
    /\ order = <<>>
    /\ result = <<>>
    /\ failure = "none"

NextCount ==
    \/ count_tick_steps_enter
    \/ count_tick_steps_loop

SpecCount == InitCount /\ [][NextCount]_vars

\* the numerals of CountTickInputs that the tick size of the call is the f64 of
CountTickTexts == {d \in CountTickInputs : F64Parse(d) = context.tick_steps[symbol]}

\* C12 (as claimed): count_tick_steps(t) returns the smallest n >= 0 with
\* t * 10^n >= 1: k for t = 10^-k, every k >= 0, and 0 for t >= 1.
C12_CountTickSteps ==
    pc = "compute" => \A d \in CountTickTexts : count = TickResolution(d)

(***************************************************************************)
(* The pricing of an order on its own (lines 30-77), from the state the    *)
(* quote fetch leaves, with quotes of up to sixteen digits.                *)
(***************************************************************************)
\* the numeral (hi * 10^8 + lo) / 10^scale
DecOf(hi, lo, scale) ==
    [neg |-> FALSE, digits |-> BAdd(BMul(BFromNat(hi), BPow10(8)), BFromNat(lo)),
     scale |-> scale]

\* last_price texts: "415588497260.8285", "319036817271.4593", "40000000.00000007"
\* and quotes of the usual size
PricingQuotes ==
    {DecOf(41558849, 72608285, 4), DecOf(31903681, 72714593, 4),
     DecOf(40000000, 7, 8), Dec(10000, 2), Dec(5123, 4), Dec(100123, 3)}

InitPricing ==
    /\ cmd_args \in [symbol : DOMAIN TickDecimals, qty : {I64(1), I64(-1)},
                     testnet : BOOLEAN, sl_pcnt : {StopLossF64[d] : d \in StopLossPcnts}]
    /\ printed = <<>>
    /\ context = trading_context(cmd_args)
    /\ symbol = cmd_args.symbol
    /\ qty = cmd_args.qty
    /\ pc = "check_qty"
    /\ transport = <<[method |-> "GET",
                      uri |-> get_full_uri(context.use_testnet,
                                           <<"/v2/public/tickers?symbol=", symbol>>),
                      body |-> <<>>]>>
    /\ \E d \in PricingQuotes :
          /\ quote_response = <<[kind |-> "json", ret_code |-> 0,
                                 result |-> <<<<[last_price |-> [t |-> "dec", d |-> d]]>>>>]>>
          /\ price = <<F64Parse(d)>>
    /\ order_response = <<>>
    /\ value_copy = F64Zero(0)
    /\ count = 0
    /\ order = <<>>
    /\ result = <<>>
    /\ failure = "none"

NextPricing ==
    \/ CheckQty
    \/ count_tick_steps_enter
    \/ count_tick_steps_loop
    \/ ComputeOrder

SpecPricing == InitPricing /\ [][NextPricing]_vars

\* C13 (as claimed): price rounding is idempotent: the limit price and the
\* stop-loss price of an order, both rounded at the tick resolution, are left
\* as they are by rounding them again at the same resolution, for every price.
C13_RoundingIdempotent ==
    OrderComputed =>
        LET roundup == tick_step_value_roundup(count)
        IN  /\ price_rounding(order[1].target_limit_price, roundup)
                   = order[1].target_limit_price
            /\ price_rounding(order[1].stop_loss_price, roundup)
                   = order[1].stop_loss_price

\* the most tests of its loop that count_tick_steps makes for the tick size
\* of the call: one for each fraction digit of the tick size, and one more
LoopMax == IF symbol \in DOMAIN TickDecimals THEN TickDecimals[symbol].scale + 1 ELSE 0

\* the steps that are left at most, of the call and of main after it
StepsLeft ==
    CASE pc = "exit" -> 0
      [] pc = "done" -> 1
      [] pc = "order_wait" -> 2
      [] pc = "order_send" -> 3
      [] pc = "compute" -> 4
      [] pc = "count_tick_steps_loop" -> 5 + LoopMax - count
      [] pc = "count_tick_steps" -> 6 + LoopMax
      [] pc = "check_qty" -> 7 + LoopMax
      [] pc = "quote_wait" -> 8 + LoopMax
      [] pc = "quote_send" -> 9 + LoopMax
      [] pc = "start" -> 10 + LoopMax

C15_QuotePositive ==
    /\ (price # <<>> => price[1].k = "fin" /\ F64Lt(F64Zero(0), price[1]))
    /\ (order # <<>> => F64Lt(F64Zero(0), price[1]))

\* C16 (as claimed): for every non-zero quantity of the i64 range, -2^63
\* included, the call gets past qty.abs() without an overflow, the side is Buy
\* exactly when qty > 0 and Sell exactly when qty < 0, the unsigned quantity
\* is |qty|, and the signed string and the body carry that side and quantity.
C16_SideAndQuantity ==
    /\ failure # "qty_abs_overflow"
    /\ order # <<>> =>
          /\ qty # I64(0)
          /\ order[1].side = (IF I64Gt0(qty) THEN "Buy" ELSE "Sell")
          /\ (order[1].side = "Sell") = I64Lt0(qty)
          /\ order[1].qty_abs = qty.mag
          /\ order[1].param_str[4] = <<"qty", qty.mag>>
          /\ order[1].param_str[5] = <<"side", order[1].side>>
          /\ order[1].request_json_obj[4] = <<"qty", qty.mag>>
          /\ order[1].request_json_obj[5] = <<"side", order[1].side>>

\* C17 (as claimed): when main has matched the outcome of the call, every
\* error kind has written a message and only the success has written none.
C17_EveryErrorPrinted ==
    pc = "exit" => ((printed = <<>>) = (result = <<"Ok">>))

\* C18 (as claimed): a run without the --testnet flag keeps the default
\* use_testnet = true: every request goes to the testnet prefix and the order
\* is signed with the testnet key and secret.
C18_DefaultsToTestnet ==
    ~cmd_args.testnet =>
        /\ context.use_testnet
        /\ \A i \in 1..Len(transport) : transport[i].uri[1] = TESTNET_URI_PREFIX
        /\ order # <<>> =>
              /\ order[1].param_str[1] = <<"api_key", context.testnet_api_key>>
              /\ order[1].sign.key = context.testnet_api_secret

C20_StopLossOnLossSide ==
    (/\ order # <<>>
     /\ F64Lt(F64Zero(0), price[1])
     /\ F64Lt(F64Zero(0), context.tick_steps[symbol])
     /\ F64Lt(F64Zero(0), context.stop_loss_pcnt)) =>
        IF order[1].side = "Buy"
        THEN F64Lt(order[1].stop_loss_price, order[1].target_limit_price)
        ELSE F64Lt(order[1].target_limit_price, order[1].stop_loss_price)

====
